---- MODULE Spec2Model ----
(***************************************************************************)
(* State-machine model of wrapper.py, the XTTS Wolof wrapper API: a        *)
(* FastAPI service that forwards a synthesis request to a Hugging Face     *)
(* Space, rewrites the returned path into a URL and optionally relays the  *)
(* audio bytes.  Python strings are TLC strings (Len, SubSeq and \o work   *)
(* on them), so every prefix / substring test of the code is computed on   *)
(* the characters, as the code computes it.                                *)
(***************************************************************************)
EXTENDS Integers, Sequences, FiniteSets, TLC

(***************************************************************************)
(* Bounds of the model.                                                    *)
(***************************************************************************)
\* longest tail appended to a prefix to build a remote result or a URL
MaxTailLen == 1

(***************************************************************************)
(* Python values: str, None and a dict holding a "path" entry.             *)
(***************************************************************************)
Str(s) == [kind |-> "str", val |-> s]
None == [kind |-> "none"]
Dict(p) == [kind |-> "dict", path |-> p]

\* str(v), as used by the f-strings
PyStr(v) ==
    IF v.kind = "str" THEN v.val
    ELSE IF v.kind = "none" THEN "None"
    ELSE "{'path': '" \o v.path \o "'}"

\* truth value of an optional string (None and "" are falsy)
Truthy(v) == v.kind = "str" /\ v.val # ""

(***************************************************************************)
(* str methods.                                                            *)
(***************************************************************************)
\* s.startswith(p)
StartsWith(s, p) == Len(s) >= Len(p) /\ SubSeq(s, 1, Len(p)) = p

\* sub in s
Contains(s, sub) ==
    \E i \in 1..(Len(s) - Len(sub) + 1) : SubSeq(s, i, i + Len(sub) - 1) = sub

UpperAlpha == "ABCDEFGHIJKLMNOPQRSTUVWXYZ"
LowerAlpha == "abcdefghijklmnopqrstuvwxyz"

\* the lower-case letter of every upper-case letter
LowerOf == [c \in {SubSeq(UpperAlpha, i, i) : i \in 1..26} |->
               LET i == CHOOSE j \in 1..26 : SubSeq(UpperAlpha, j, j) = c
               IN  SubSeq(LowerAlpha, i, i)]

LowerChar(c) == IF c \in DOMAIN LowerOf THEN LowerOf[c] ELSE c

RECURSIVE Lower(_)
\* s.lower()
Lower(s) == IF s = "" THEN "" ELSE LowerChar(SubSeq(s, 1, 1)) \o Lower(SubSeq(s, 2, Len(s)))

\* s[:n]
Slice(s, n) == SubSeq(s, 1, IF Len(s) < n THEN Len(s) ELSE n)

(***************************************************************************)
(* Module-level configuration.                                             *)
(***************************************************************************)
SPACE_URL == "https://dofbi-galsenai-xtts-v2-wolof-inference.hf.space"

\* the literal of the source is a non-empty secret; only its truth value and
\* its use in the Authorization header matter, so the secret is not repeated
HF_TOKEN == Str("hf_REDACTED")

DEFAULT_REFERENCE == "https://github.com/Dremer404/AUDIO/raw/refs/heads/main/anta.wav"

\* the try/except around login() at import time; e is what the platform does
StartupAuth(e) ==
    IF Truthy(HF_TOKEN)
    THEN IF e.login_ok
         THEN IF e.HAS_HFFOLDER THEN e.saved_token ELSE TRUE
         ELSE FALSE
    ELSE FALSE


(***************************************************************************)
(* POST /synthesize: conversion of the remote result into audio_url.       *)
(***************************************************************************)
\* NormalizeResult with the temp-path branch building the legacy "/file=" route
NormalizeResult_LegacyRoute(result) ==
    IF result.kind = "str"
    THEN IF StartsWith(result.val, "/tmp/gradio/") \/ StartsWith(result.val, "tmp/gradio/")
         THEN Str(SPACE_URL \o "/file=" \o result.val)
         ELSE IF StartsWith(result.val, "/")
              THEN Str(SPACE_URL \o "/gradio_api/file=" \o result.val)
              ELSE result
    ELSE result

\* NormalizeResult without the pass-through branch: every string is rewritten
NormalizeResult_AlwaysRewrite(result) ==
    IF result.kind = "str"
    THEN Str(SPACE_URL \o "/gradio_api/file=" \o result.val)
    ELSE result

\* the isinstance / startswith cascade; a non-string result is kept as it is
NormalizeResult(result) ==
    IF result.kind = "str"
    THEN IF StartsWith(result.val, "/tmp/gradio/") \/ StartsWith(result.val, "tmp/gradio/")
         THEN Str(SPACE_URL \o "/gradio_api/file=" \o result.val)
         ELSE IF StartsWith(result.val, "/")
              THEN Str(SPACE_URL \o "/gradio_api/file=" \o result.val)
              ELSE result
    ELSE result

\* the except branch of synthesize_speech: status and detail chosen from str(e)
SynthesizeError(error_msg) ==
    IF Contains(error_msg, "GPU quota") \/ Contains(error_msg, "exceeded")
    THEN [status |-> 429,
          detail |-> "Quota GPU depasse. Attendez quelques minutes ou utilisez un token HF valide."]
    ELSE IF Contains(error_msg, "401") \/ Contains(Lower(error_msg), "authentication")
         THEN [status |-> 401,
               detail |-> "Probleme d'authentification HF. Verifiez votre token."]
         ELSE [status |-> 500, detail |-> error_msg]

\* the function synthesize_speech: rem is what Client(...) / client.predict(...)
\* did, auth is AUTH_SUCCESS.  The outcome is the returned dict or the
\* HTTPException raised.
SynthesizeSpeech(text, audio_reference_url, rem, auth) ==
    LET ref == IF Truthy(audio_reference_url) THEN audio_reference_url.val
               ELSE DEFAULT_REFERENCE
    IN  IF rem.kind = "raise"
        THEN LET exc == SynthesizeError(rem.error)
             IN  [kind |-> "error", status |-> exc.status, detail |-> exc.detail]
        ELSE LET audio_url == NormalizeResult(rem.result)
             IN  [kind |-> "json",
                  status |-> 200,
                  body |-> [status |-> "success",
                            audio_url |-> audio_url,
                            download_url |-> "/download?url=" \o PyStr(audio_url),
                            text |-> text,
                            audio_reference |-> ref,
                            authenticated |-> auth]]

(***************************************************************************)
(* Relay download.                                                         *)
(***************************************************************************)
RECURSIVE FirstFrom(_, _, _)
\* position, from i on, of the first character of s that is in chars,
\* Len(s)+1 if none
FirstFrom(s, chars, i) ==
    IF i > Len(s) \/ SubSeq(s, i, i) \in chars THEN i ELSE FirstFrom(s, chars, i + 1)

SchemeOf(u) ==
    IF Lower(Slice(u, 8)) = "https://" THEN "https"
    ELSE IF Lower(Slice(u, 7)) = "http://" THEN "http"
    ELSE ""

\* the authority component: what follows "scheme://" up to the path
AuthorityOf(u) ==
    LET start == Len(SchemeOf(u)) + 4
    IN  SubSeq(u, start, FirstFrom(u, {"/", "?", "#"}, start) - 1)

\* host[:port] without the scheme's default port (no URL of the model carries
\* userinfo)
HostPortOf(u) ==
    LET hp == Lower(AuthorityOf(u))
        n  == Len(hp)
    IN  IF SchemeOf(u) = "https" /\ n > 4 /\ SubSeq(hp, n - 3, n) = ":443"
        THEN SubSeq(hp, 1, n - 4)
        ELSE IF SchemeOf(u) = "http" /\ n > 3 /\ SubSeq(hp, n - 2, n) = ":80"
             THEN SubSeq(hp, 1, n - 3)
             ELSE hp

\* scheme + host + port of a URL; <<"", "">> for a string that is no http(s) URL
Origin(u) == IF SchemeOf(u) = "" THEN <<"", "">> ELSE <<SchemeOf(u), HostPortOf(u)>>

\* requests.get refuses, before any network traffic, a URL that is not a
\* string, has no http(s) scheme (MissingSchema / InvalidSchema) or has no
\* host (InvalidURL)
Sendable(v) == v.kind = "str" /\ SchemeOf(v.val) # "" /\ HostPortOf(v.val) # ""

\* the function download_audio_from_hf: net is what the network did.  calls is
\* the set of requests put on the wire, each with the headers it carried.
DownloadAudioFromHf(audio_url, token, net) ==
    LET headers == IF Truthy(token) THEN Str("Bearer " \o token.val) ELSE None
    IN  IF Sendable(audio_url)
        THEN [calls |-> {[url |-> audio_url.val, Authorization |-> headers]},
              outcome |-> net]
        ELSE [calls |-> {},
              outcome |-> [kind |-> "raise", error |-> "Invalid URL " \o PyStr(audio_url)]]

\* str(e) of a caught exception.  For an HTTPException the text depends on the
\* installed Starlette: "" (no __str__) or "<status>: <detail>".
ExceptionTexts(exc) ==
    IF exc.kind = "error"
    THEN {"", ToString(exc.status) \o ": " \o exc.detail}
    ELSE {exc.error}


(***************************************************************************)
(* Inputs: what callers send and what the platform, the Space and the      *)
(* network do.                                                             *)
(***************************************************************************)
TailChars == {"a", "/"}

RECURSIVE Tails(_)
\* the strings over TailChars of length at most n
Tails(n) == IF n = 0 THEN {""} ELSE Tails(n - 1) \cup {t \o c : t \in Tails(n - 1), c \in TailChars}

\* what client.predict may hand back as a string, or as the path of a dict
ResultPrefixes ==
    {"/tmp/gradio/", "tmp/gradio/", "/", "", "http://", SPACE_URL, "https://evil.example"}

ResultStrings == {p \o t : p \in ResultPrefixes, t \in Tails(MaxTailLen)}

\* str(e) of what Client(...) or client.predict(...) may raise
ErrorTexts ==
    {"GPU quota exceeded", "You have exceeded your GPU quota", "Quota Exceeded",
     "Rate limit reached", "401 Client Error", "Authentication failed",
     "Unauthorized", "403 Forbidden", "Connection refused"}

RemoteOutcomes ==
    {[kind |-> "return", result |-> Str(r)] : r \in ResultStrings}
    \cup {[kind |-> "return", result |-> Dict(r)] : r \in ResultStrings}
    \cup {[kind |-> "return", result |-> None]}
    \cup {[kind |-> "raise", error |-> e] : e \in ErrorTexts}

\* what the network does with a request that is put on the wire
NetOutcomes ==
    {[kind |-> "content", content |-> "RIFF"],
     [kind |-> "raise", error |-> "404 Client Error: Not Found"]}

\* the url parameter of GET /download
UrlPrefixes ==
    {SPACE_URL, SPACE_URL \o ":443", SPACE_URL \o ":8443",
     SPACE_URL \o ".evil.example",
     "http://dofbi-galsenai-xtts-v2-wolof-inference.hf.space",
     "https://evil.example", ""}

Urls == {p \o t : p \in UrlPrefixes, t \in Tails(MaxTailLen)}

\* the parameters of POST /synthesize and POST /synthesize-download
SynthesisRequests ==
    {[text |-> "Naka nga def", audio_reference_url |-> None],
     [text |-> "Mangi fi rekk, jamm nga am",
      audio_reference_url |-> Str("https://example.org/ref.wav")]}

\* what importing the module found: whether HfFolder exists, whether login()
\* returned and, when HfFolder.get_token() is called, whether it gave a token
Environments ==
    {e \in [HAS_HFFOLDER : BOOLEAN, login_ok : BOOLEAN, saved_token : BOOLEAN] :
        e.saved_token => (e.HAS_HFFOLDER /\ e.login_ok)}

(***************************************************************************)
(* State.                                                                  *)
(***************************************************************************)
VARIABLES
    env,           \* what the import found (fixed)
    AUTH_SUCCESS,  \* the module-level flag
    request,       \* the request handled last
    remote,        \* what the Space did during it
    fetched,       \* the requests it put on the wire through requests.get
    response       \* the response the caller got

vars == <<env, AUTH_SUCCESS, request, remote, fetched, response>>

NoRemote == [kind |-> "none"]

Init ==
    /\ env \in Environments
    /\ AUTH_SUCCESS = StartupAuth(env)
    /\ request = [endpoint |-> "none"]
    /\ remote = NoRemote
    /\ fetched = {}
    /\ response = [kind |-> "none", status |-> 0]

HTTPException(status_code, detail) ==
    [kind |-> "error", status |-> status_code, detail |-> detail]

StreamingResponse(content, filename) ==
    [kind |-> "stream", status |-> 200, media_type |-> "audio/wav",
     content |-> content,
     disposition |-> "attachment; filename=" \o filename]

(***************************************************************************)
(* Endpoints.  Each action is one request handled from start to end.       *)
(***************************************************************************)
\* GET /
root ==
    /\ request' = [endpoint |-> "root"]
    /\ remote' = NoRemote
    /\ fetched' = {}
    /\ response' = [kind |-> "json", status |-> 200,
                    body |-> [status |-> "operational",
                              space_url |-> SPACE_URL,
                              authenticated |-> AUTH_SUCCESS,
                              token_present |-> (HF_TOKEN.kind # "none"),
                              token_valid |-> AUTH_SUCCESS]]
    /\ UNCHANGED <<env, AUTH_SUCCESS>>

\* health_check validating the token again and storing the outcome in the flag
health_check_Revalidate ==
    \E valid \in BOOLEAN :
        /\ request' = [endpoint |-> "health"]
        /\ remote' = NoRemote
        /\ fetched' = {}
        /\ AUTH_SUCCESS' = valid
        /\ response' = [kind |-> "json", status |-> 200,
                        body |-> [status |-> "healthy",
                                  space_url |-> SPACE_URL,
                                  authenticated |-> valid,
                                  token_present |-> (HF_TOKEN.kind # "none")]]
        /\ UNCHANGED env

\* GET /health
health_check ==
    /\ request' = [endpoint |-> "health"]
    /\ remote' = NoRemote
    /\ fetched' = {}
    /\ response' = [kind |-> "json", status |-> 200,
                    body |-> [status |-> "healthy",
                              space_url |-> SPACE_URL,
                              authenticated |-> AUTH_SUCCESS,
                              token_present |-> (HF_TOKEN.kind # "none")]]
    /\ UNCHANGED <<env, AUTH_SUCCESS>>

\* GET /test-space
test_space_connection ==
    \E rem \in {[kind |-> "connected"]} \cup {[kind |-> "raise", error |-> e] : e \in ErrorTexts} :
        /\ request' = [endpoint |-> "test-space"]
        /\ remote' = rem
        /\ fetched' = {}
        /\ response' =
              IF rem.kind = "raise"
              THEN HTTPException(503, "Impossible de se connecter au Space : " \o rem.error)
              ELSE [kind |-> "json", status |-> 200,
                    body |-> [status |-> "connected",
                              space_url |-> SPACE_URL,
                              authenticated |-> AUTH_SUCCESS,
                              message |-> IF AUTH_SUCCESS
                                          THEN "Le Space est accessible avec votre compte"
                                          ELSE "Le Space est accessible (quota limite)"]]
        /\ UNCHANGED <<env, AUTH_SUCCESS>>

\* POST /synthesize
synthesize_speech ==
    \E req \in SynthesisRequests, rem \in RemoteOutcomes :
        /\ request' = [endpoint |-> "synthesize", text |-> req.text,
                       audio_reference_url |-> req.audio_reference_url]
        /\ remote' = rem
        /\ fetched' = {}
        /\ response' = SynthesizeSpeech(req.text, req.audio_reference_url, rem, AUTH_SUCCESS)
        /\ UNCHANGED <<env, AUTH_SUCCESS>>

\* POST /synthesize-download
synthesize_speech_download ==
    \E req \in SynthesisRequests, rem \in RemoteOutcomes, net \in NetOutcomes :
      \E result \in {SynthesizeSpeech(req.text, req.audio_reference_url, rem, AUTH_SUCCESS)} :
        /\ request' = [endpoint |-> "synthesize-download", text |-> req.text,
                       audio_reference_url |-> req.audio_reference_url]
        /\ remote' = rem
        /\ IF result.kind = "error"
           THEN \* the HTTPException of synthesize_speech is caught by except Exception
                /\ fetched' = {}
                /\ \E msg \in ExceptionTexts(result) : response' = HTTPException(500, msg)
           ELSE \E dl \in {DownloadAudioFromHf(result.body.audio_url, HF_TOKEN, net)} :
                    /\ fetched' = dl.calls
                    /\ IF dl.outcome.kind = "raise"
                       THEN \E msg \in ExceptionTexts(dl.outcome) :
                                response' = HTTPException(500, msg)
                       ELSE response' = StreamingResponse(dl.outcome.content,
                                           "audio_" \o Slice(req.text, 20) \o ".wav")
        /\ UNCHANGED <<env, AUTH_SUCCESS>>

\* GET /download
download_audio ==
    \E url \in Urls, net \in NetOutcomes :
        /\ request' = [endpoint |-> "download", url |-> url]
        /\ remote' = NoRemote
        /\ IF ~StartsWith(url, SPACE_URL)
           THEN \* the HTTPException(400) is raised inside the try and caught by
                \* its except Exception
                /\ fetched' = {}
                /\ \E msg \in ExceptionTexts(HTTPException(400, "URL invalide - doit provenir du Space HF")) :
                       response' = HTTPException(500, msg)
           ELSE \E dl \in {DownloadAudioFromHf(Str(url), HF_TOKEN, net)} :
                    /\ fetched' = dl.calls
                    /\ IF dl.outcome.kind = "raise"
                       THEN \E msg \in ExceptionTexts(dl.outcome) :
                                response' = HTTPException(500, msg)
                       ELSE response' = StreamingResponse(dl.outcome.content, "audio.wav")
        /\ UNCHANGED <<env, AUTH_SUCCESS>>

Next ==
    \/ root
    \/ health_check
    \/ test_space_connection
    \/ synthesize_speech
    \/ synthesize_speech_download
    \/ download_audio

Spec == Init /\ [][Next]_vars

(***************************************************************************)
(* Properties.                                                             *)
(***************************************************************************)
IsHttpUrl(s) == StartsWith(s, "http://") \/ StartsWith(s, "https://")

Rewritten(s) == Str(SPACE_URL \o "/gradio_api/file=" \o s)

SynthesizeReturned ==
    request.endpoint \in {"synthesize", "synthesize-download"} /\ remote.kind = "return"

\* C1: a GET /download whose url has another origin (scheme, host, port) than
\* SPACE_URL is rejected and puts no request on the wire, whatever the path
\* and however the url begins.
C1_ForeignOriginNeverFetched ==
    (request.endpoint = "download" /\ Origin(request.url) # Origin(SPACE_URL))
        => (response.kind = "error" /\ fetched = {})

\* C2: POST /synthesize-download puts the bearer-carrying request on the wire
\* only for a URL of SPACE_URL's origin; a result that normalizes to a URL of
\* another origin is rejected without a fetch.
C2_SynthesizeDownloadFetchesOnlyBaseOrigin ==
    request.endpoint = "synthesize-download"
        => /\ \A f \in fetched : Origin(f.url) = Origin(SPACE_URL)
           /\ remote.kind = "return" =>
                  LET u == NormalizeResult(remote.result)
                  IN  (u.kind = "str" /\ SchemeOf(u.val) # "" /\ Origin(u.val) # Origin(SPACE_URL))
                          => (fetched = {} /\ response.kind = "error")

\* the status the documented mapping gives to error text e, matching without
\* regard to case
DocumentedStatus(e) ==
    LET t == Lower(e)
    IN  IF Contains(t, "quota") \/ Contains(t, "rate limit") \/ Contains(t, "rate-limit")
           \/ Contains(t, "exceeded")
        THEN 429
        ELSE IF Contains(t, "authentication") \/ Contains(t, "unauthorized")
             THEN 401
             ELSE IF Contains(t, "forbidden") THEN 403 ELSE 500

\* C3: when the remote call of POST /synthesize fails with text E, the status
\* is the documented one: quota / rate-limit / exceeded 429, authentication /
\* unauthorized 401, forbidden 403, anything else 500, case-insensitively.
C3_StatusFollowsDocumentedMapping ==
    (request.endpoint = "synthesize" /\ remote.kind = "raise")
        => response.status = DocumentedStatus(remote.error)

\* C4: a string result S of POST /synthesize that begins with "/tmp/gradio/"
\* or with "/" gives audio_url = SPACE_URL + "/gradio_api/file=" + S, S
\* unmodified, the same for both prefixes.
C4_PathResultRewritten ==
    (request.endpoint = "synthesize" /\ remote.kind = "return"
       /\ remote.result.kind = "str"
       /\ (StartsWith(remote.result.val, "/tmp/gradio/") \/ StartsWith(remote.result.val, "/")))
        => /\ response.kind = "json"
           /\ response.body.audio_url = Rewritten(remote.result.val)

C4_Witness ==
    /\ request.endpoint = "synthesize"
    /\ remote = [kind |-> "return", result |-> Str("/tmp/gradio/a")]
    /\ response.kind = "json"
    /\ response.body.audio_url = Str(SPACE_URL \o "/gradio_api/file=/tmp/gradio/a")

\* C5: a string result S of POST /synthesize that begins with "http://" or
\* "https://" is returned unchanged, and normalizing the audio_url of any
\* string result once more gives the same audio_url.
C5_NormalizeIdempotent ==
    (request.endpoint = "synthesize" /\ remote.kind = "return" /\ remote.result.kind = "str")
        => /\ response.kind = "json"
           /\ IsHttpUrl(remote.result.val) => response.body.audio_url = remote.result
           /\ NormalizeResult(response.body.audio_url) = response.body.audio_url

C5_Witness ==
    /\ request.endpoint = "synthesize"
    /\ remote = [kind |-> "return", result |-> Str("http://a")]
    /\ response.kind = "json"
    /\ response.body.audio_url = Str("http://a")

\* C6: a dict result holding a path gives, on POST /synthesize, the audio_url
\* string SPACE_URL + "/gradio_api/file=" + path (the path itself when it is
\* an http(s) URL), never the dict.
C6_DictPathRewritten ==
    (request.endpoint = "synthesize" /\ remote.kind = "return" /\ remote.result.kind = "dict")
        => /\ response.kind = "json"
           /\ response.body.audio_url =
                 IF IsHttpUrl(remote.result.path) THEN Str(remote.result.path)
                 ELSE Rewritten(remote.result.path)

\* C7: POST /synthesize answers "success" only with an audio_url that is an
\* absolute http(s) URL; any other result is an error response.
C7_SuccessOnlyWithAbsoluteUrl ==
    (request.endpoint = "synthesize" /\ response.kind = "json")
        => /\ response.body.audio_url.kind = "str"
           /\ IsHttpUrl(response.body.audio_url.val)

\* C8: the HTTPException(400) that GET /download raises for a url outside
\* SPACE_URL reaches the caller as status 400.
C8_OriginRejectionIs400 ==
    (request.endpoint = "download" /\ ~StartsWith(request.url, SPACE_URL))
        => (response.kind = "error" /\ response.status = 400)

\* C9: POST /synthesize-download reports a failure of the remote call with the
\* status POST /synthesize gives to the same failure.
C9_DownloadKeepsSynthesizeStatus ==
    (request.endpoint = "synthesize-download" /\ remote.kind = "raise")
        => response.status = SynthesizeError(remote.error).status

\* C10: no request changes the authenticated flag: it keeps its startup
\* value, which is false when login() failed, and every response body that
\* carries "authenticated" carries that value.
C10_AuthFlagFixedAtStartup ==
    /\ AUTH_SUCCESS = StartupAuth(env)
    /\ ~env.login_ok => ~AUTH_SUCCESS
    /\ response.kind = "json" => response.body.authenticated = StartupAuth(env)

C10_Witness ==
    /\ ~env.login_ok
    /\ request.endpoint = "synthesize"
    /\ response.kind = "json"
    /\ response.body.authenticated = FALSE
    /\ AUTH_SUCCESS = FALSE

=============================================================================
